---- MODULE Spec2Model ----
(***************************************************************************)
(* weechatlogs_parser/parser.py: the line classifier                       *)
(* (parse_weechat_logfile), the directory importer (parse_weechat_logs),   *)
(* the store (initialize_database) and the search (search_logs).           *)
(*                                                                         *)
(* A Python str is a sequence of one-character strings.  None is the       *)
(* record Absent; every other argument is [given |-> TRUE, val |-> str].   *)
(***************************************************************************)
EXTENDS Integers, Sequences, FiniteSets, TLC

VARIABLES
    tableExists,  \* the database file holds the table logs
    logs,         \* the committed rows of logs, in id order
    pending,      \* rows inserted by the importer's open transaction
    before,       \* history: logs as the last operation found them
    discarded,    \* history: the rows the last rollback threw away
    pc,           \* "idle" | "listing" (line 71) | "reading" (line 79)
    op,           \* the last operation started
    outcome,      \* "none" | "running" | "ok" | "error"
    listed,       \* the directory entries os.listdir has yielded in this run
    file,         \* the loop variable file (line 71)
    network,      \* line 74
    channel,      \* line 78
    line,         \* the raw line last read from the file (line 34)
    out,          \* what the generator did with it: a yield or an exception
    args,         \* the arguments of the last search
    results       \* what the last search returned

vars == <<tableExists, logs, pending, before, discarded, pc, op, outcome, listed, file,
          network, channel, line, out, args, results>>

(***************************************************************************)
(* Characters and literals of the source.                                  *)
(***************************************************************************)
TAB == "\t"
NL == "\n"
SP == " "
DOT == "."

W_irc == <<"i", "r", "c">>
W_server == <<"s", "e", "r", "v", "e", "r">>
W_weechatlog == <<"w", "e", "e", "c", "h", "a", "t", "l", "o", "g">>
W_freenode == <<"f", "r", "e", "e", "n", "o", "d", "e">>
W_somechannel == <<"s", "o", "m", "e", "c", "h", "a", "n", "n", "e", "l">>
W_xmpp == <<"x", "m", "p", "p">>
W_txt == <<"t", "x", "t">>
W_README == <<"R", "E", "A", "D", "M", "E">>

M_action == <<" ", "*">>
M_server == <<"-", "-">>
M_client == <<>>
M_join == <<"-", "-", ">">>
M_part == <<"<", "-", "-">>

Glyphs == {"+", "@", "%"}

K_ACTION == <<"A", "C", "T", "I", "O", "N">>
K_MESSAGE == <<"M", "E", "S", "S", "A", "G", "E">>
K_SERVER_INFO == <<"S", "E", "R", "V", "E", "R", " ", "I", "N", "F", "O">>
K_CLIENT_INFO == <<"C", "L", "I", "E", "N", "T", " ", "I", "N", "F", "O">>
K_JOIN == <<"J", "O", "I", "N">>
K_PART == <<"P", "A", "R", "T">>

(***************************************************************************)
(* Bounds.                                                                 *)
(***************************************************************************)
MaxMarkerLen == 3   \* classifier inputs: longest marker field
MaxRestLen == 2     \* classifier inputs: longest rest field
MaxRows == 2        \* rows in logs plus rows in the open transaction
MaxEntries == 2     \* entries of one directory

(***************************************************************************)
(* str methods.                                                            *)
(***************************************************************************)
\* s.find(c) + 1: the position of the first c in s, 0 when there is none
IndexOf(s, c) ==
    IF \E i \in 1..Len(s) : s[i] = c
    THEN CHOOSE i \in 1..Len(s) : s[i] = c /\ \A j \in 1..(i - 1) : s[j] # c
    ELSE 0

RECURSIVE Split(_, _, _)
\* s.split(sep, maxsplit) for a one-character sep; maxsplit = -1 is no limit
Split(s, sep, maxsplit) ==
    LET i == IndexOf(s, sep) IN
    IF maxsplit = 0 \/ i = 0 THEN <<s>>
    ELSE <<SubSeq(s, 1, i - 1)>> \o Split(SubSeq(s, i + 1, Len(s)), sep, maxsplit - 1)

RECURSIVE LStrip(_, _)
LStrip(s, chars) ==
    IF s # <<>> /\ Head(s) \in chars THEN LStrip(Tail(s), chars) ELSE s

RECURSIVE RStrip(_, _)
RStrip(s, chars) ==
    IF s # <<>> /\ s[Len(s)] \in chars THEN RStrip(SubSeq(s, 1, Len(s) - 1), chars) ELSE s

\* s.strip(chars)
Strip(s, chars) == RStrip(LStrip(s, chars), chars)

RECURSIVE Join(_, _)
\* sep.join(parts)
Join(sep, parts) ==
    IF parts = <<>> THEN <<>>
    ELSE IF Len(parts) = 1 THEN parts[1]
    ELSE parts[1] \o <<sep>> \o Join(sep, Tail(parts))

(***************************************************************************)
(* parse_weechat_logfile, one line.                                        *)
(***************************************************************************)
NoOut == [err |-> FALSE, kind |-> <<>>, timestamp |-> <<>>, nick |-> <<>>, text |-> <<>>]
\* an uncaught ValueError from an unpacking assignment
Raised == [err |-> TRUE, kind |-> <<>>, timestamp |-> <<>>, nick |-> <<>>, text |-> <<>>]
Yield(ts, kind, nick, text) ==
    [err |-> FALSE, kind |-> kind, timestamp |-> ts, nick |-> nick, text |-> text]

\* SplitFields with a fault: the split is not limited to two cuts
SplitFieldsUnlimited(raw) == Split(Strip(raw, {NL}), TAB, -1)

\* lines 35-36: line.strip("\n").split("\t", maxsplit=2)
SplitFields(raw) == Split(Strip(raw, {NL}), TAB, 2)

\* ActionParts with a fault: the unpacking is not guarded
ActionPartsStrict(rest) ==
    LET p == Split(rest, SP, 1) IN
    IF Len(p) = 2 THEN [err |-> FALSE, nick |-> p[1], text |-> p[2]]
    ELSE [err |-> TRUE, nick |-> <<>>, text |-> <<>>]

\* lines 39-42: try: nick, rest = rest.split(" ", maxsplit=1) except ValueError
ActionParts(rest) ==
    LET p == Split(rest, SP, 1) IN
    IF Len(p) = 2 THEN [err |-> FALSE, nick |-> p[1], text |-> p[2]]
    ELSE [err |-> FALSE, nick |-> rest, text |-> <<>>]

\* JoinPartParts with a fault: the ValueError is caught as in the ACTION branch
JoinPartPartsLenient(rest) ==
    LET p == Split(rest, SP, 1) IN
    IF Len(p) = 2 THEN [err |-> FALSE, nick |-> p[1], text |-> p[2]]
    ELSE [err |-> FALSE, nick |-> rest, text |-> <<>>]

\* lines 49 and 52: nick, rest = rest.split(" ", maxsplit=1)
JoinPartParts(rest) ==
    LET p == Split(rest, SP, 1) IN
    IF Len(p) = 2 THEN [err |-> FALSE, nick |-> p[1], text |-> p[2]]
    ELSE [err |-> TRUE, nick |-> <<>>, text |-> <<>>]

\* lines 35-56: the body of the for loop, for one raw line of the file
Classify(raw) ==
    LET f == SplitFields(raw) IN
    IF Len(f) # 3 THEN Raised
    ELSE LET timestamp == f[1]
             mid == f[2]
             rest == f[3]
         IN  IF mid = M_action
             THEN LET a == ActionParts(rest) IN
                  IF a.err THEN Raised ELSE Yield(timestamp, K_ACTION, a.nick, a.text)
             ELSE IF mid = M_server THEN Yield(timestamp, K_SERVER_INFO, <<>>, rest)
             ELSE IF mid = M_client THEN Yield(timestamp, K_CLIENT_INFO, <<>>, rest)
             ELSE IF mid = M_join
             THEN LET a == JoinPartParts(rest) IN
                  IF a.err THEN Raised ELSE Yield(timestamp, K_JOIN, a.nick, a.text)
             ELSE IF mid = M_part
             THEN LET a == JoinPartParts(rest) IN
                  IF a.err THEN Raised ELSE Yield(timestamp, K_PART, a.nick, a.text)
             ELSE Yield(timestamp, K_MESSAGE, mid, rest)

(***************************************************************************)
(* The classifier's inputs: what iterating a text file can yield.          *)
(***************************************************************************)
StringsUpTo(alphabet, n) == UNION {[1..k -> alphabet] : k \in 0..n}

MarkerChars == {" ", "*", "-", ">", "<", "a"}
RestChars == {" ", "\t", "b"}
Timestamps == {<<>>, <<"1">>}

\* a line of the file without its newline: any number of tabs from 0 up
Bodies ==
    {ts \o <<TAB>> \o m \o <<TAB>> \o r :
        ts \in Timestamps, m \in StringsUpTo(MarkerChars, MaxMarkerLen),
        r \in StringsUpTo(RestChars, MaxRestLen)}
    \cup {ts \o <<TAB>> \o m : ts \in Timestamps, m \in StringsUpTo(MarkerChars \ {" "}, 2)}
    \cup StringsUpTo({"a", " "}, 2)

\* every line ends with its newline, except possibly the file's last; an
\* iteration never yields the empty string
ClassifierLines == {b \o <<NL>> : b \in Bodies} \cup (Bodies \ {<<>>})

(***************************************************************************)
(* The importer's inputs: directory entries and the lines of their files.  *)
(***************************************************************************)
W_foo_bar == <<"#", "f", "o", "o", ".", "b", "a", "r">>

N_freenode_server == Join(DOT, <<W_irc, W_freenode, W_server, W_weechatlog>>)
N_foo_bar == Join(DOT, <<W_irc, W_freenode, W_foo_bar, W_weechatlog>>)
N_server_freenode == Join(DOT, <<W_irc, W_server, W_freenode, W_weechatlog>>)
N_three == Join(DOT, <<W_irc, W_freenode, W_weechatlog>>)
N_xmpp == Join(DOT, <<W_xmpp, W_freenode, W_somechannel, W_weechatlog>>)
N_txt == Join(DOT, <<W_irc, W_freenode, W_somechannel, W_txt>>)

FileNames ==
    {N_freenode_server, N_foo_bar, N_server_freenode, N_three,
     N_xmpp, N_txt, W_README}

Mk(ts, marker, rest) == ts \o <<TAB>> \o marker \o <<TAB>> \o rest \o <<NL>>

L_action == Mk(<<"2">>, M_action, <<"@", "b", " ", "h", "i", " ", "x">>)
L_action_bare == Mk(<<"1">>, M_action, <<"b">>)
L_message == Mk(<<"1", "0">>, <<"+", "a", "@", "b", "%">>, <<"y", "o", TAB, " ", "x">>)
L_server_info == Mk(<<"3">>, M_server, <<"x">>)
L_client_info == Mk(<<"3">>, M_client, <<"x">>)
L_join == Mk(<<"3">>, M_join, <<"b", " ", "j">>)
L_join_bare == Mk(<<"3">>, M_join, <<"b">>)
L_part == Mk(<<"3">>, M_part, <<"b", " ", "q">>)
L_part_bare == Mk(<<"3">>, M_part, <<"b">>)
L_no_tab == <<"o", "o", "p", "s", NL>>
L_one_tab == <<"1", TAB, "x">>
L_blank == <<NL>>

ImportLines ==
    {L_action, L_action_bare, L_message, L_server_info, L_client_info, L_join,
     L_join_bare, L_part, L_part_bare, L_no_tab, L_one_tab, L_blank}

(***************************************************************************)
(* initialize_database and the sqlite3 connection.                         *)
(***************************************************************************)
\* CreateTableIfNotExists with a fault: DROP TABLE, then CREATE TABLE
DropAndCreateTable(exists, rows) == [exists |-> TRUE, rows |-> <<>>]

\* lines 14-27: CREATE TABLE IF NOT EXISTS logs (...), committed
CreateTableIfNotExists(exists, rows) ==
    [exists |-> TRUE, rows |-> IF exists THEN rows ELSE <<>>]

\* Insert with a fault: every row is committed as it is inserted
InsertAndCommit(committed, open, row) ==
    [logs |-> committed \o open \o <<row>>, pending |-> <<>>]

\* lines 85-91: cursor.execute(INSERT ...) inside the implicit transaction
Insert(committed, open, row) ==
    [logs |-> committed, pending |-> Append(open, row)]

(***************************************************************************)
(* parse_weechat_logs.                                                     *)
(***************************************************************************)
\* Skipped with a fault: "server" is looked for in the third segment
SkippedByChannel(parts) ==
    \/ parts[1] # W_irc
    \/ (Len(parts) >= 3 /\ parts[3] = W_server)
    \/ parts[Len(parts)] # W_weechatlog

\* lines 73-77: irc != "irc" or network == "server" or ext != "weechatlog"
Skipped(parts) ==
    \/ parts[1] # W_irc
    \/ parts[2] = W_server
    \/ parts[Len(parts)] # W_weechatlog

\* ChannelOf with a fault: the third segment alone
ChannelThird(parts) == IF Len(parts) >= 3 THEN parts[3] ELSE <<>>

\* line 78: ".".join(parts[2:-1])
ChannelOf(parts) == Join(DOT, SubSeq(parts, 3, Len(parts) - 1))

\* StripGlyphs with a fault: lstrip
StripGlyphsLeft(nick) == LStrip(nick, Glyphs)

\* line 84: nick.strip("+@%")
StripGlyphs(nick) == Strip(nick, Glyphs)

\* line 82: log_type in {"ACTION", "MESSAGE"}
Persistable(kind) == kind \in {K_ACTION, K_MESSAGE}

\* the row the INSERT of lines 85-91 adds; id is the AUTOINCREMENT key
Row(id, net, chan, o) ==
    [id |-> id, network |-> net, channel |-> chan, timestamp |-> o.timestamp,
     log_type |-> o.kind, nick |-> StripGlyphs(o.nick), message |-> o.text]

(***************************************************************************)
(* search_logs.                                                            *)
(***************************************************************************)
Absent == [given |-> FALSE, val |-> <<>>]
Given(s) == [given |-> TRUE, val |-> s]
NoArgs == [query |-> Absent, channel |-> Absent, nick |-> Absent,
           log_type |-> Absent, date |-> Absent]

\* the truth value of an argument: None and "" are false
Truthy(a) == a.given /\ a.val # <<>>

LowerCase == <<"a", "b", "c", "d", "e", "f", "g", "h", "i", "j", "k", "l", "m",
               "n", "o", "p", "q", "r", "s", "t", "u", "v", "w", "x", "y", "z">>
UpperCase == <<"A", "B", "C", "D", "E", "F", "G", "H", "I", "J", "K", "L", "M",
               "N", "O", "P", "Q", "R", "S", "T", "U", "V", "W", "X", "Y", "Z">>

\* str.upper(), on ASCII
Upper(s) ==
    [i \in 1..Len(s) |->
        IF IndexOf(LowerCase, s[i]) > 0 THEN UpperCase[IndexOf(LowerCase, s[i])] ELSE s[i]]

\* the case folding of SQLite's LIKE, on ASCII
Fold(c) == IF IndexOf(UpperCase, c) > 0 THEN LowerCase[IndexOf(UpperCase, c)] ELSE c

RECURSIVE Like(_, _)
\* SQLite's s LIKE p: % is any run of characters, _ is any one character
Like(s, p) ==
    IF p = <<>> THEN s = <<>>
    ELSE IF Head(p) = "%" THEN Like(s, Tail(p)) \/ (s # <<>> /\ Like(Tail(s), p))
    ELSE /\ s # <<>>
         /\ (Head(p) = "_" \/ Fold(Head(p)) = Fold(Head(s)))
         /\ Like(Tail(s), Tail(p))

\* the characters of the model in ASCII order
Ascii == <<TAB, NL, " ", "#", "%", "*", "+", "-", ".", "0", "1", "2", "3", "4",
           "5", "6", "7", "8", "9", "<", ">", "@">> \o UpperCase \o <<"_">> \o LowerCase

RECURSIVE StrLeq(_, _)
\* a <= b under SQLite's BINARY collation
StrLeq(a, b) ==
    IF a = <<>> THEN TRUE
    ELSE IF b = <<>> THEN FALSE
    ELSE IF Head(a) # Head(b) THEN IndexOf(Ascii, Head(a)) < IndexOf(Ascii, Head(b))
    ELSE StrLeq(Tail(a), Tail(b))

\* lines 117-138: the conditions joined by AND, with their parameters
Conditions(a) ==
    (IF Truthy(a.query) THEN {"message"} ELSE {})
    \cup (IF Truthy(a.channel) THEN {"channel"} ELSE {})
    \cup (IF Truthy(a.nick) THEN {"nick"} ELSE {})
    \cup (IF Truthy(a.log_type) THEN {"log_type"} ELSE {})
    \cup (IF Truthy(a.date) THEN {"timestamp"} ELSE {})

Matches(row, a) ==
    /\ Truthy(a.query) => Like(row.message, <<"%">> \o a.query.val \o <<"%">>)
    /\ Truthy(a.channel) => row.channel = a.channel.val
    /\ Truthy(a.nick) => row.nick = a.nick.val
    /\ Truthy(a.log_type) => row.log_type = Upper(a.log_type.val)
    /\ Truthy(a.date) => Like(row.timestamp, <<"%">> \o a.date.val \o <<"%">>)

\* line 141: SELECT timestamp, nick, message, channel, log_type
Selected(row) == <<row.timestamp, row.nick, row.message, row.channel, row.log_type>>

\* line 144: every order of rows that ORDER BY timestamp ASC allows
Ordered(rows) ==
    LET n == Len(rows) IN
    {[i \in 1..n |-> Selected(rows[p[i]])] :
        p \in {q \in Permutations(1..n) :
                 \A i, j \in 1..n : i < j => StrLeq(rows[q[i]].timestamp, rows[q[j]].timestamp)}}

\* lines 140-148: the statement as sqlite3 executes it.  With no condition the
\* text is "... WHERE  ORDER BY ...", which does not parse: OperationalError
Execute(a, exists, rows) ==
    IF Conditions(a) = {} \/ ~exists
    THEN {[err |-> TRUE, rows |-> <<>>]}
    ELSE {[err |-> FALSE, rows |-> r] :
            r \in Ordered(SelectSeq(rows, LAMBDA row : Matches(row, a)))}

\* no argument, every argument "", each argument alone, and two together
SearchArgs ==
    {NoArgs,
     [query |-> Given(<<>>), channel |-> Given(<<>>), nick |-> Given(<<>>),
      log_type |-> Given(<<>>), date |-> Given(<<>>)],
     [NoArgs EXCEPT !.query = Given(<<"H", "I">>)],
     [NoArgs EXCEPT !.channel = Given(W_foo_bar)],
     [NoArgs EXCEPT !.nick = Given(<<"b">>)],
     [NoArgs EXCEPT !.log_type = Given(<<"a", "c", "t", "i", "o", "n">>)],
     [NoArgs EXCEPT !.date = Given(<<"1">>)],
     [NoArgs EXCEPT !.channel = Given(W_foo_bar),
                    !.log_type = Given(<<"M", "e", "s", "s", "a", "g", "e">>)]}

(***************************************************************************)
(* The state machine.                                                      *)
(***************************************************************************)
InitStore ==
    /\ tableExists = FALSE
    /\ logs = <<>>
    /\ pending = <<>>
    /\ before = <<>>
    /\ discarded = 0
    /\ pc = "idle"
    /\ op = "none"
    /\ outcome = "none"
    /\ listed = {}
    /\ file = <<>>
    /\ network = <<>>
    /\ channel = <<>>
    /\ args = NoArgs
    /\ results = <<>>

\* no database file, nothing run yet
Init ==
    /\ InitStore
    /\ line = <<>>
    /\ out = NoOut

\* a function's locals are gone when it has returned
FreshLocals ==
    /\ listed' = {}
    /\ file' = <<>>
    /\ network' = <<>>
    /\ channel' = <<>>
    /\ line' = <<>>
    /\ out' = NoOut

\* lines 8-28
InitializeDatabase ==
    /\ pc = "idle"
    /\ LET db == CreateTableIfNotExists(tableExists, logs) IN
           /\ tableExists' = db.exists
           /\ logs' = db.rows
    /\ op' = "init"
    /\ outcome' = "ok"
    /\ before' = logs
    /\ discarded' = 0
    /\ args' = NoArgs
    /\ results' = <<>>
    /\ FreshLocals
    /\ UNCHANGED <<pending, pc>>

\* lines 68-69: connect; the first INSERT will open a transaction
StartImport ==
    /\ pc = "idle"
    /\ pc' = "listing"
    /\ op' = "parse"
    /\ outcome' = "running"
    /\ before' = logs
    /\ discarded' = 0
    /\ pending' = <<>>
    /\ args' = NoArgs
    /\ results' = <<>>
    /\ FreshLocals
    /\ UNCHANGED <<tableExists, logs>>

\* an uncaught exception leaves parse_weechat_logs: the connection is never
\* committed, and its transaction is rolled back when it is closed.  Of the
\* locals, the traceback's position (file, line) is kept
Abort ==
    /\ pc' = "idle"
    /\ outcome' = "error"
    /\ pending' = <<>>
    /\ discarded' = Len(pending)
    /\ listed' = {}
    /\ network' = <<>>
    /\ channel' = <<>>

\* lines 71-78: the next entry of os.listdir
NextEntry(f) ==
    /\ pc = "listing"
    /\ f \notin listed
    /\ Cardinality(listed) < MaxEntries
    /\ file' = f
    /\ LET parts == Split(f, DOT, -1) IN
           IF Len(parts) < 2
           THEN \* line 74: parts[1] raises IndexError
                Abort
           ELSE IF Skipped(parts)
           THEN /\ listed' = listed \cup {f}
                /\ network' = parts[2]
                /\ UNCHANGED <<pc, outcome, pending, discarded, channel>>
           ELSE /\ listed' = listed \cup {f}
                /\ network' = parts[2]
                /\ channel' = ChannelOf(parts)
                /\ pc' = "reading"
                /\ UNCHANGED <<outcome, pending, discarded>>
    /\ UNCHANGED <<tableExists, logs, before, op, line, out, args, results>>

\* lines 34-56 and 79-91: the next line of the open file
ProcessLine(l) ==
    /\ pc = "reading"
    /\ LET o == Classify(l) IN
           /\ (~o.err /\ Persistable(o.kind) /\ tableExists)
                  => Len(logs) + Len(pending) < MaxRows
           /\ line' = l
           /\ out' = o
           /\ IF o.err
              THEN Abort /\ UNCHANGED logs
              ELSE IF ~Persistable(o.kind)
              THEN UNCHANGED <<pc, outcome, pending, discarded, logs, listed, network, channel>>
              ELSE IF ~tableExists
              THEN \* line 85: OperationalError, no such table
                   Abort /\ UNCHANGED logs
              ELSE LET db == Insert(logs, pending,
                                    Row(Len(logs) + Len(pending) + 1, network, channel, o))
                   IN  /\ logs' = db.logs
                       /\ pending' = db.pending
                       /\ UNCHANGED <<pc, outcome, discarded, listed, network, channel>>
    /\ UNCHANGED <<tableExists, before, op, file, args, results>>

\* line 34: the file is exhausted and closed
EndOfFile ==
    /\ pc = "reading"
    /\ pc' = "listing"
    /\ line' = <<>>
    /\ out' = NoOut
    /\ UNCHANGED <<tableExists, logs, pending, before, discarded, op, outcome,
                   listed, file, network, channel, args, results>>

\* lines 96-97: the directory is exhausted
Commit ==
    /\ pc = "listing"
    /\ logs' = logs \o pending
    /\ pending' = <<>>
    /\ pc' = "idle"
    /\ outcome' = "ok"
    /\ FreshLocals
    /\ UNCHANGED <<tableExists, before, discarded, op, args, results>>

\* lines 101-150
SearchLogs(a) ==
    /\ pc = "idle"
    /\ op' = "search"
    /\ args' = a
    /\ before' = logs
    /\ discarded' = 0
    /\ \E r \in Execute(a, tableExists, logs) :
           /\ outcome' = IF r.err THEN "error" ELSE "ok"
           /\ results' = r.rows
    /\ FreshLocals
    /\ UNCHANGED <<tableExists, logs, pending, pc>>

Next ==
    \/ InitializeDatabase
    \/ StartImport
    \/ \E f \in FileNames : NextEntry(f)
    \/ \E l \in ImportLines : ProcessLine(l)
    \/ EndOfFile
    \/ Commit
    \/ \E a \in SearchArgs : SearchLogs(a)

Spec == Init /\ [][Next]_vars

\* a one-line file is given to the generator
InitClassify ==
    /\ InitStore
    /\ line \in ClassifierLines
    /\ out = NoOut

\* next(parse_weechat_logfile(f)) on that file
ClassifyLine ==
    /\ op = "none"
    /\ op' = "classify"
    /\ out' = Classify(line)
    /\ outcome' = IF Classify(line).err THEN "error" ELSE "ok"
    /\ UNCHANGED <<tableExists, logs, pending, before, discarded, pc, listed,
                   file, network, channel, line, args, results>>

NextClassify == ClassifyLine

SpecClassify == InitClassify /\ [][NextClassify]_vars

(***************************************************************************)
(* What the claims speak of, stated on the raw text by position.           *)
(***************************************************************************)
Positions(s, c) == {i \in 1..Len(s) : s[i] = c}
Least(S) == CHOOSE x \in S : \A y \in S : x <= y

\* the line without the newline that ends it
Body(raw) ==
    IF raw # <<>> /\ raw[Len(raw)] = NL THEN SubSeq(raw, 1, Len(raw) - 1) ELSE raw

TwoTabs(s) == Cardinality(Positions(s, TAB)) >= 2
FirstTab(s) == Least(Positions(s, TAB))
SecondTab(s) == Least(Positions(s, TAB) \ {FirstTab(s)})
StampField(s) == SubSeq(s, 1, FirstTab(s) - 1)
MarkerField(s) == SubSeq(s, FirstTab(s) + 1, SecondTab(s) - 1)
RestField(s) == SubSeq(s, SecondTab(s) + 1, Len(s))

HasSpace(s) == Positions(s, SP) # {}
BeforeSpace(s) == SubSeq(s, 1, Least(Positions(s, SP)) - 1)
AfterSpace(s) == SubSeq(s, Least(Positions(s, SP)) + 1, Len(s))

Reserved == {M_action, M_server, M_client, M_join, M_part}

\* the generator has been given line and out is what it did
Classified == line # <<>> /\ out # NoOut

Last(s) == s[Len(s)]
IsPrefix(s, t) == Len(s) <= Len(t) /\ SubSeq(t, 1, Len(s)) = s

\* nick is actor without its leading and trailing glyphs, and nothing else
StrippedOf(actor, nick) ==
    \E i \in 0..Len(actor) : \E j \in i..Len(actor) :
        /\ nick = SubSeq(actor, i + 1, j)
        /\ \A k \in 1..i : actor[k] \in Glyphs
        /\ \A k \in (j + 1)..Len(actor) : actor[k] \in Glyphs
        /\ nick # <<>> => (nick[1] \notin Glyphs /\ nick[Len(nick)] \notin Glyphs)

\* the importer stopped on an exception and its transaction left nothing
Aborted ==
    /\ pc = "idle"
    /\ outcome = "error"
    /\ pending = <<>>
    /\ logs = before

(***************************************************************************)
(* C1. A line with two tabs or more whose marker is none of the five       *)
(* reserved ones is classified MESSAGE: the actor is the marker, the text  *)
(* is everything after the second tab, unsplit, later tabs and spaces      *)
(* kept.                                                                   *)
(***************************************************************************)
C1_OtherMarkerIsMessage ==
    (Classified /\ TwoTabs(Body(line)) /\ MarkerField(Body(line)) \notin Reserved)
        => out = [err |-> FALSE, kind |-> K_MESSAGE,
                  timestamp |-> StampField(Body(line)),
                  nick |-> MarkerField(Body(line)),
                  text |-> RestField(Body(line))]

\* a MESSAGE whose text holds a tab and a space has been yielded
C1_Witness ==
    /\ Classified
    /\ out.kind = K_MESSAGE
    /\ out.nick # <<>>
    /\ Positions(out.text, TAB) # {}
    /\ Positions(out.text, SP) # {}

(***************************************************************************)
(* C2. Once the importer has read a line with fewer than two tabs, the run *)
(* has stopped there with an error: it is at that file and that line, the  *)
(* rows of this run are gone and the store is as it was before the run.    *)
(***************************************************************************)
C2_MalformedLineAbortsAll ==
    (op = "parse" /\ Classified /\ ~TwoTabs(Body(line)))
        => (Aborted /\ out.err)

\* a run that had inserted rows, on a store that held rows, hit such a line
C2_Witness ==
    /\ op = "parse"
    /\ Classified
    /\ ~TwoTabs(Body(line))
    /\ outcome = "error"
    /\ discarded > 0
    /\ logs # <<>>

(***************************************************************************)
(* C3, as claimed. An entry whose name is not irc.<network>.<channel>.     *)
(* weechatlog with four segments or more, a first segment irc, a network   *)
(* other than server and a last segment weechatlog is skipped: no error,   *)
(* no line of it read.                                                     *)
(***************************************************************************)
NamedAsClaimed(f) ==
    LET seg == Split(f, DOT, -1) IN
    /\ Len(seg) >= 4
    /\ seg[1] = W_irc
    /\ seg[2] # W_server
    /\ seg[Len(seg)] = W_weechatlog

C3_OtherNamesSkipped ==
    (file # <<>> /\ ~NamedAsClaimed(file)) => (pc # "reading" /\ outcome # "error")

(***************************************************************************)
(* C4, as claimed. On an initialised store a search with no filter         *)
(* succeeds and returns every stored row once, by ascending timestamp.     *)
(***************************************************************************)
C4_NoFilterReturnsAll ==
    (op = "search" /\ args = NoArgs /\ tableExists)
        => /\ outcome = "ok"
           /\ Len(results) = Len(logs)
           /\ \A i \in 1..Len(logs) : \E j \in 1..Len(results) : results[j] = Selected(logs[i])
           /\ \A i, j \in 1..Len(results) : i < j => StrLeq(results[i][1], results[j][1])

(***************************************************************************)
(* C5, as claimed. irc.freenode.server.weechatlog is never read and no row *)
(* with channel "server" is emitted.                                       *)
(***************************************************************************)
C5_FreenodeServerSkipped ==
    /\ ~(pc = "reading" /\ file = N_freenode_server)
    /\ \A i \in 1..Len(logs \o pending) : (logs \o pending)[i].channel # W_server

(***************************************************************************)
(* C5, amended. irc.freenode.server.weechatlog is read: its second segment *)
(* is freenode, and its rows carry network freenode and channel "server".  *)
(* The entry that is skipped is irc.server.freenode.weechatlog, whose      *)
(* second segment is "server".                                             *)
(***************************************************************************)
C5_SecondSegmentDecides ==
    /\ (file = N_freenode_server /\ pc \in {"listing", "reading"})
           => (network = W_freenode /\ channel = W_server)
    /\ (file = N_freenode_server /\ pc = "reading" /\ Classified /\ Persistable(out.kind))
           => (Last(pending).network = W_freenode /\ Last(pending).channel = W_server)
    /\ file = N_server_freenode => pc # "reading"

\* a row of irc.freenode.server.weechatlog is in the transaction
C5_Witness ==
    /\ file = N_freenode_server
    /\ pc = "reading"
    /\ Classified
    /\ Persistable(out.kind)
    /\ Last(pending).channel = W_server

(***************************************************************************)
(* C6. A line of kind ACTION or MESSAGE adds exactly one row, with that    *)
(* kind, the line's timestamp and text, and the actor less its leading and *)
(* trailing +, @ and % (those inside are kept); a line of any other kind   *)
(* adds none; nothing else adds a row, and a completed import commits      *)
(* exactly the rows so added.                                              *)
(***************************************************************************)
C6_OneRowPerChatLine ==
    [][/\ (pc = "reading" /\ pc' = "reading")
           => IF out'.kind \in {K_ACTION, K_MESSAGE}
              THEN /\ Len(pending') = Len(pending) + 1
                   /\ IsPrefix(pending, pending')
                   /\ Last(pending').log_type = out'.kind
                   /\ Last(pending').timestamp = StampField(Body(line'))
                   /\ Last(pending').timestamp = out'.timestamp
                   /\ Last(pending').message = out'.text
                   /\ StrippedOf(out'.nick, Last(pending').nick)
              ELSE pending' = pending
       /\ ~(pc = "reading" /\ pc' = "reading") => pending' \in {pending, <<>>}
       /\ (pc = "listing" /\ pc' = "idle" /\ outcome' = "ok") => logs' = logs \o pending
       /\ ~(pc = "listing" /\ pc' = "idle" /\ outcome' = "ok") => logs' = logs
      ]_vars

\* an import has completed and committed a row whose nick kept an inner glyph
C6_Witness ==
    /\ op = "parse"
    /\ outcome = "ok"
    /\ IsPrefix(before, logs)
    /\ \E i \in (Len(before) + 1)..Len(logs) :
           /\ logs[i].nick = <<"a", "@", "b">>
           /\ logs[i].log_type = K_MESSAGE

(***************************************************************************)
(* C7. A line with marker --> or <-- is classified JOIN or PART with the   *)
(* actor before the first space of rest and the text after it; when rest   *)
(* holds no space the classification raises, and an import that meets      *)
(* such a line is aborted.                                                 *)
(***************************************************************************)
C7_JoinPartNeedsSpace ==
    (Classified /\ TwoTabs(Body(line)) /\ MarkerField(Body(line)) \in {M_join, M_part})
        => LET rest == RestField(Body(line)) IN
           IF HasSpace(rest)
           THEN out = [err |-> FALSE,
                       kind |-> IF MarkerField(Body(line)) = M_join THEN K_JOIN ELSE K_PART,
                       timestamp |-> StampField(Body(line)),
                       nick |-> BeforeSpace(rest),
                       text |-> AfterSpace(rest)]
           ELSE out.err /\ (op = "parse" => Aborted)

\* a part line whose rest is a nick and nothing more has raised
C7_Witness ==
    /\ Classified
    /\ TwoTabs(Body(line))
    /\ MarkerField(Body(line)) = M_part
    /\ RestField(Body(line)) # <<>>
    /\ ~HasSpace(RestField(Body(line)))
    /\ out.err

(***************************************************************************)
(* C8. A line with marker " *" is classified ACTION and never raises: the  *)
(* actor is rest before its first space and the text what follows it, or   *)
(* the actor is all of rest and the text is empty when rest has no space.  *)
(***************************************************************************)
C8_ActionSplitIsLenient ==
    (Classified /\ TwoTabs(Body(line)) /\ MarkerField(Body(line)) = M_action)
        => LET rest == RestField(Body(line)) IN
           out = [err |-> FALSE, kind |-> K_ACTION,
                  timestamp |-> StampField(Body(line)),
                  nick |-> IF HasSpace(rest) THEN BeforeSpace(rest) ELSE rest,
                  text |-> IF HasSpace(rest) THEN AfterSpace(rest) ELSE <<>>]

\* an action line whose rest is empty has been yielded
C8_Witness ==
    /\ Classified
    /\ TwoTabs(Body(line))
    /\ MarkerField(Body(line)) = M_action
    /\ RestField(Body(line)) = <<>>
    /\ out.kind = K_ACTION
    /\ out.nick = <<>>
    /\ out.text = <<>>

(***************************************************************************)
(* C9. While a file is read, network is the second dotted segment of its   *)
(* name and channel is what lies between that segment and the last one,    *)
(* dots included; every row emitted from the file carries that pair.       *)
(***************************************************************************)
C9_IdentityFromName ==
    pc = "reading"
        => /\ Positions(network, DOT) = {}
           /\ Cardinality(Positions(file, DOT)) >= 3
                  => file = W_irc \o <<DOT>> \o network \o <<DOT>> \o channel
                                  \o <<DOT>> \o W_weechatlog
           /\ Cardinality(Positions(file, DOT)) = 2
                  => /\ channel = <<>>
                     /\ file = W_irc \o <<DOT>> \o network \o <<DOT>> \o W_weechatlog
           /\ (Classified /\ Persistable(out.kind))
                  => /\ Last(pending).network = network
                     /\ Last(pending).channel = channel

\* a row of irc.freenode.#foo.bar.weechatlog with channel #foo.bar
C9_Witness ==
    /\ pc = "reading"
    /\ file = N_foo_bar
    /\ Classified
    /\ Persistable(out.kind)
    /\ Last(pending).network = W_freenode
    /\ Last(pending).channel = W_foo_bar

(***************************************************************************)
(* C10. No step removes or changes a committed row or drops the table:     *)
(* init and search leave the rows as they are, an import only appends.     *)
(***************************************************************************)
C10_AppendOnly ==
    [][/\ IsPrefix(logs, logs')
       /\ tableExists => tableExists'
       /\ op' \in {"init", "search"} => logs' = logs
      ]_vars

\* init has run on a store that holds rows
C10_Witness ==
    /\ op = "init"
    /\ outcome = "ok"
    /\ tableExists
    /\ logs # <<>>

====
